---- MODULE Spec2Model ----
(***************************************************************************)
(* A model of the datapath index (crates/datapath/src/index): the glob     *)
(* compiler Rule (rule.rs), the PathSegment parser and the DatapathIndex   *)
(* builders and queries (mod.rs).                                          *)
(*                                                                         *)
(* A Rust string is a sequence of one-character strings: "a/b" is          *)
(* <<"a", "/", "b">>.  An Option is a record [some, v].                    *)
(***************************************************************************)
EXTENDS Integers, Sequences, FiniteSets, TLC

\* ------------------------------------------------------------------------
\* Bounds of the model
\* ------------------------------------------------------------------------

\* longest glob pattern handed to Rule::new / query
MaxPatLen == 4
\* longest candidate string handed to Rule::is_match
MaxCandLen == 4
\* longest path string supplied to the index builders
MaxPathLen == 3
\* most paths supplied to one index
MaxPaths == 2
\* the buffer of the channel async_new reads from
ChannelCapacity == 2
\* longest path string sent into the channel
MaxSentLen == 2
\* most paths sent into the channel
MaxSent == 2
\* longest literal segment of the doublestar patterns
MaxLitLen == 1
\* longest candidate matched against the doublestar patterns
MaxLongCandLen == 5
\* longest path string of an index that is queried twice
MaxQueryPathLen == 2
\* most paths of an index that is queried twice
MaxQueryPaths == 2
\* longest glob of a query that is run twice
MaxQueryGlobLen == 3
\* longest path string of an index that is only built
MaxBuildPathLen == 3
\* most paths of an index that is only built
MaxBuildPaths == 2
\* most tokens of a glob built from tokens
MaxGlobTokens == 3
\* most tokens of a path built from tokens
MaxPathTokens == 3
\* most paths of an index of paths built from tokens
MaxTokenPaths == 1
\* most tokens of a pattern built from "**" and other tokens
MaxStarTokens == 4
\* longest text parsed as a PathSegment
MaxSegmentLen == 4
\* longest String wrapped in a Wildcardable
MaxWildLen == 2
\* largest u8 wrapped in a Wildcardable
MaxWildNum == 150

\* ------------------------------------------------------------------------
\* Strings
\* ------------------------------------------------------------------------

\* all strings over the alphabet A of length at most n
Strings(A, n) == UNION {[1..k -> A] : k \in 0..n}

\* str::contains(char)
Contains(s, c) == \E i \in 1..Len(s) : s[i] = c

\* str::starts_with
StartsWith(s, p) == Len(p) <= Len(s) /\ SubSeq(s, 1, Len(p)) = p

\* str::ends_with
EndsWith(s, p) == Len(p) <= Len(s) /\ SubSeq(s, Len(s) - Len(p) + 1, Len(s)) = p

\* str::split(char): the pieces between the occurrences of c; never empty,
\* "" splits into [""], "a/" into ["a", ""]
RECURSIVE SplitFrom(_, _, _, _)
SplitFrom(s, c, i, cur) ==
    IF i > Len(s) THEN <<cur>>
    ELSE IF s[i] = c THEN <<cur>> \o SplitFrom(s, c, i + 1, <<>>)
    ELSE SplitFrom(s, c, i + 1, Append(cur, s[i]))

Split(s, c) == SplitFrom(s, c, 1, <<>>)

\* Itertools::join / [T]::join with a one-character separator
RECURSIVE Join(_, _)
Join(items, sep) ==
    IF Len(items) = 0 THEN <<>>
    ELSE IF Len(items) = 1 THEN items[1]
    ELSE items[1] \o <<sep>> \o Join(Tail(items), sep)

\* char::is_whitespace, on the characters of the model
IsWhitespace(c) == c \in {" ", "\n"}

\* str::trim: leading and trailing whitespace removed
RECURSIVE TrimStart(_)
TrimStart(s) ==
    IF Len(s) > 0 /\ IsWhitespace(s[1]) THEN TrimStart(Tail(s)) ELSE s

RECURSIVE TrimEnd(_)
TrimEnd(s) ==
    IF Len(s) > 0 /\ IsWhitespace(s[Len(s)])
    THEN TrimEnd(SubSeq(s, 1, Len(s) - 1)) ELSE s

Trim(s) == TrimEnd(TrimStart(s))

\* str::trim_end_matches("**"): the suffix "**" removed repeatedly
RECURSIVE TrimEndDoubleStar(_)
TrimEndDoubleStar(s) ==
    IF EndsWith(s, <<"*", "*">>)
    THEN TrimEndDoubleStar(SubSeq(s, 1, Len(s) - 2)) ELSE s

\* str::trim_matches('/'): every leading and trailing '/' removed
RECURSIVE TrimStartSlash(_)
TrimStartSlash(s) ==
    IF Len(s) > 0 /\ s[1] = "/" THEN TrimStartSlash(Tail(s)) ELSE s

RECURSIVE TrimEndSlash(_)
TrimEndSlash(s) ==
    IF Len(s) > 0 /\ s[Len(s)] = "/"
    THEN TrimEndSlash(SubSeq(s, 1, Len(s) - 1)) ELSE s

TrimSlash(s) == TrimEndSlash(TrimStartSlash(s))

\* Option
None == [some |-> FALSE, v |-> <<>>]
Some(x) == [some |-> TRUE, v |-> x]

\* ------------------------------------------------------------------------
\* PathSegment (mod.rs)
\* ------------------------------------------------------------------------

\* PathSegment::Constant(x); the value field is unused
Constant(x) == [kind |-> "Constant", key |-> x, value |-> <<>>]

\* PathSegment::Value { key, value }
Value(k, v) == [kind |-> "Value", key |-> k, value |-> v]

\* PathSegmentFromStr that takes the piece between the first and the second
\* '=' as the value
PathSegmentFromStrSecond(s) ==
    IF Contains(s, "\n") THEN None
    ELSE IF s = <<>> THEN None
    ELSE IF Contains(s, "=")
         THEN LET parts == Split(s, "=")
              IN  Some(Value(parts[1], parts[2]))
         ELSE Some(Constant(s))

\* impl FromStr for PathSegment: Err(()) is None
PathSegmentFromStr(s) ==
    IF Contains(s, "\n") THEN None
    ELSE IF s = <<>> THEN None
    ELSE IF Contains(s, "=")
         THEN LET parts == Split(s, "=")
              IN  Some(Value(parts[1], Join(Tail(parts), "=")))
         ELSE Some(Constant(s))

\* impl Display for PathSegment
PathSegmentDisplay(seg) ==
    IF seg.kind = "Constant" THEN seg.key
    ELSE seg.key \o <<"=">> \o seg.value

\* the iter_mut().for_each of new / async_new / query_to_key: every Value's
\* value becomes "*"
StarValues(segments) ==
    [i \in 1..Len(segments) |->
        IF segments[i].kind = "Constant" THEN segments[i]
        ELSE Value(segments[i].key, <<"*">>)]

\* segments.iter().join("/")
JoinSegments(segments) ==
    Join([i \in 1..Len(segments) |-> PathSegmentDisplay(segments[i])], "/")

\* ParsedSegments that leaves the loop at the first token that fails to parse
RECURSIVE ParsedSegmentsBreak(_)
ParsedSegmentsBreak(tokens) ==
    IF Len(tokens) = 0 THEN <<>>
    ELSE LET r == PathSegmentFromStr(tokens[1])
         IN  IF r.some THEN <<r.v>> \o ParsedSegmentsBreak(Tail(tokens))
             ELSE <<>>

\* the inner loop of new / async_new: the tokens of s that parse, in order
RECURSIVE ParsedSegments(_)
ParsedSegments(tokens) ==
    IF Len(tokens) = 0 THEN <<>>
    ELSE LET r == PathSegmentFromStr(tokens[1])
         IN  IF r.some THEN <<r.v>> \o ParsedSegments(Tail(tokens))
             ELSE ParsedSegments(Tail(tokens))

\* the skeleton under which new / async_new store the path s
Skeleton(s) == JoinSegments(StarValues(ParsedSegments(Split(s, "/"))))

\* KeySegments that skips a token "*" or "**" and goes on with the next
RECURSIVE KeySegmentsSkipStars(_)
KeySegmentsSkipStars(tokens) ==
    IF Len(tokens) = 0 THEN <<>>
    ELSE LET r == PathSegmentFromStr(tokens[1])
         IN  IF ~r.some THEN KeySegmentsSkipStars(Tail(tokens))
             ELSE IF r.v.kind = "Constant"
                     /\ (r.v.key = <<"*">> \/ r.v.key = <<"*", "*">>)
                  THEN KeySegmentsSkipStars(Tail(tokens))
             ELSE <<r.v>> \o KeySegmentsSkipStars(Tail(tokens))

\* the loop of query_to_key: tokens that fail to parse are skipped, the
\* loop breaks at the first token that is the constant "*" or "**"
RECURSIVE KeySegments(_)
KeySegments(tokens) ==
    IF Len(tokens) = 0 THEN <<>>
    ELSE LET r == PathSegmentFromStr(tokens[1])
         IN  IF ~r.some THEN KeySegments(Tail(tokens))
             ELSE IF r.v.kind = "Constant"
                     /\ (r.v.key = <<"*">> \/ r.v.key = <<"*", "*">>)
                  THEN <<>>
             ELSE <<r.v>> \o KeySegments(Tail(tokens))

\* DatapathIndex::query_to_key
query_to_key(query) ==
    LET trimmed == TrimSlash(TrimEndDoubleStar(Trim(query)))
    IN  JoinSegments(StarValues(KeySegments(Split(trimmed, "/"))))

\* ------------------------------------------------------------------------
\* Rule (rule.rs)
\* ------------------------------------------------------------------------

\* A regular expression is a sequence of tokens [t, c]: t names the piece of
\* regex syntax, c the character of a "char" or "\\char" token.
Tok(t) == [t |-> t, c |-> ""]

\* the characters regex::escape puts a backslash before
MetaChars ==
    {"\\", ".", "+", "*", "?", "(", ")", "|", "[", "]", "{", "}", "^", "$",
     "#", "&", "-", "~"}

\* Escape without the backslashes: every character is left as it is
EscapeNothing(part) ==
    [i \in 1..Len(part) |-> [t |-> "char", c |-> part[i]]]

\* regex::escape, one character at a time
Escape(part) ==
    [i \in 1..Len(part) |->
        IF part[i] \in MetaChars THEN [t |-> "\\char", c |-> part[i]]
        ELSE [t |-> "char", c |-> part[i]]]

\* StarRunEnd for the regex "[*]{2}": a run ends after its second star
StarRunEndTwo(pattern, i) ==
    IF i < Len(pattern) /\ pattern[i + 1] = "*" THEN i + 1 ELSE i

\* the end of the run of '*' that starts at 1-based position i
RECURSIVE StarRunEnd(_, _)
StarRunEnd(pattern, i) ==
    IF i < Len(pattern) /\ pattern[i + 1] = "*" THEN StarRunEnd(pattern, i + 1)
    ELSE i

\* Bounds for the regex "[/]": the pattern is split on slashes only
RECURSIVE BoundsSlashOnly(_, _)
BoundsSlashOnly(pattern, at) ==
    IF at >= Len(pattern) THEN <<Len(pattern)>>
    ELSE IF pattern[at + 1] = "/"
         THEN <<at, at + 1>> \o BoundsSlashOnly(pattern, at + 1)
    ELSE BoundsSlashOnly(pattern, at + 1)

\* find_iter of "[*]{2,}|[/]" from byte offset `at`, flat-mapped to
\* [start, end] and chained with pattern.len(): the `bounds` of regex_str
RECURSIVE Bounds(_, _)
Bounds(pattern, at) ==
    IF at >= Len(pattern) THEN <<Len(pattern)>>
    ELSE IF pattern[at + 1] = "*" /\ StarRunEnd(pattern, at + 1) > at + 1
         THEN <<at, StarRunEnd(pattern, at + 1)>>
                  \o Bounds(pattern, StarRunEnd(pattern, at + 1))
    ELSE IF pattern[at + 1] = "/"
         THEN <<at, at + 1>> \o Bounds(pattern, at + 1)
    ELSE Bounds(pattern, at + 1)

\* the `for next in bounds` loop of regex_str: the pieces between the
\* bounds, without "/" and without empty pieces
RECURSIVE Parts(_, _, _)
Parts(pattern, bounds, last) ==
    IF Len(bounds) = 0 THEN <<>>
    ELSE LET next == bounds[1]
             seg  == SubSeq(pattern, last + 1, next)
         IN  IF seg # <<"/">> /\ seg # <<>>
             THEN <<seg>> \o Parts(pattern, Tail(bounds), next)
             ELSE Parts(pattern, Tail(bounds), next)

\* the `segments` of regex_str
Segments(pattern) == Parts(pattern, Bounds(pattern, 0), 0)

AllStars(segment) == \A i \in 1..Len(segment) : segment[i] = "*"

\* RegexSegment
Single(x) == [kind |-> "Single", re |-> x]
DoubleStar == [kind |-> "DoubleStar", re |-> <<>>]

\* one Single fragment: the segment split on '*', each part escaped, the
\* parts joined by "([^/]*)"
RECURSIVE Rebuilt(_)
Rebuilt(parts) ==
    IF Len(parts) = 1 THEN Escape(parts[1])
    ELSE Escape(parts[1]) \o <<Tok("([^/]*)")>> \o Rebuilt(Tail(parts))

\* RebuiltSegments that pushes a DoubleStar for every "**", whatever came
\* before it
RECURSIVE RebuiltSegmentsEvery(_, _)
RebuiltSegmentsEvery(segments, last_was_doublestar) ==
    IF Len(segments) = 0 THEN Some(<<>>)
    ELSE LET segment == segments[1]
         IN  IF Len(segment) > 1 /\ AllStars(segment)
             THEN IF segment = <<"*", "*">>
                  THEN LET rest == RebuiltSegmentsEvery(Tail(segments), TRUE)
                       IN  IF ~rest.some THEN None
                           ELSE Some(<<DoubleStar>> \o rest.v)
                  ELSE None
             ELSE LET rest == RebuiltSegmentsEvery(Tail(segments), FALSE)
                  IN  IF ~rest.some THEN None
                      ELSE Some(<<Single(Rebuilt(Split(segment, "*")))>> \o rest.v)

\* the `for segment in segments` loop of regex_str: None on a run of three
\* or more stars, else the rebuilt_segments
RECURSIVE RebuiltSegments(_, _)
RebuiltSegments(segments, last_was_doublestar) ==
    IF Len(segments) = 0 THEN Some(<<>>)
    ELSE LET segment == segments[1]
         IN  IF Len(segment) > 1 /\ AllStars(segment)
             THEN IF segment = <<"*", "*">>
                  THEN LET rest == RebuiltSegments(Tail(segments), TRUE)
                       IN  IF ~rest.some THEN None
                           ELSE IF ~last_was_doublestar
                                THEN Some(<<DoubleStar>> \o rest.v)
                                ELSE rest
                  ELSE None
             ELSE LET rest == RebuiltSegments(Tail(segments), FALSE)
                  IN  IF ~rest.some THEN None
                      ELSE Some(<<Single(Rebuilt(Split(segment, "*")))>> \o rest.v)

\* to_regex_part with a doublestar between two Singles that may match
\* nothing at all, not even the slash
to_regex_part_nullable(prev, self, next) ==
    IF self.kind = "Single"
    THEN IF next.some /\ next.v.kind = "Single"
         THEN self.re \o <<Tok("[/]")>>
         ELSE self.re
    ELSE IF (next.some /\ next.v.kind = "DoubleStar")
              \/ (prev.some /\ prev.v.kind = "DoubleStar")
         THEN <<Tok("unreachable!")>>
    ELSE IF ~prev.some /\ ~next.some THEN <<Tok("((?:.*)?)")>>
    ELSE IF prev.some /\ ~next.some THEN <<Tok("((?:[/].*)?)")>>
    ELSE <<Tok("((?:.*[/])?)")>>

\* RegexSegment::to_regex_part; prev and next are Options
to_regex_part(prev, self, next) ==
    IF self.kind = "Single"
    THEN IF next.some /\ next.v.kind = "Single"
         THEN self.re \o <<Tok("[/]")>>
         ELSE self.re
    ELSE IF (next.some /\ next.v.kind = "DoubleStar")
              \/ (prev.some /\ prev.v.kind = "DoubleStar")
         THEN <<Tok("unreachable!")>>
    ELSE IF ~prev.some /\ ~next.some THEN <<Tok("((?:.*)?)")>>
    ELSE IF prev.some /\ ~next.some THEN <<Tok("((?:[/].*)?)")>>
    ELSE IF ~prev.some /\ next.some THEN <<Tok("((?:.*[/])?)")>>
    ELSE <<Tok("((?:[/].*[/])|[/])")>>

\* the last loop of regex_str: the parts of all segments, concatenated
RECURSIVE ReBuilt(_, _)
ReBuilt(rebuilt_segments, i) ==
    IF i > Len(rebuilt_segments) THEN <<>>
    ELSE LET prev == IF i = 1 THEN None ELSE Some(rebuilt_segments[i - 1])
             next == IF i = Len(rebuilt_segments) THEN None
                     ELSE Some(rebuilt_segments[i + 1])
         IN  to_regex_part(prev, rebuilt_segments[i], next)
                 \o ReBuilt(rebuilt_segments, i + 1)

\* Rule::regex_str
regex_str(pattern) ==
    LET rebuilt_segments == RebuiltSegments(Segments(pattern), FALSE)
    IN  IF ~rebuilt_segments.some THEN None
        ELSE Some(ReBuilt(rebuilt_segments.v, 1))

\* Rule::new: the regex is "^" + regex_str + "$", the pattern is kept as given
RuleNew(pattern) ==
    LET re_built == regex_str(pattern)
    IN  IF ~re_built.some THEN None
        ELSE Some([regex |-> <<Tok("^")>> \o re_built.v \o <<Tok("$")>>,
                   pattern |-> pattern])

\* what `.` matches: any character but the newline
DotMatches(c) == c # "\n"

\* s[a..b] (1-based, inclusive) is matched by `.*`
DotRun(s, a, b) == \A k \in a..b : DotMatches(s[k])

\* s[a..b] is matched by `[^/]*`
NoSlashRun(s, a, b) == \A k \in a..b : s[k] # "/"

\* the tokens of re from the i-th on match s from position j on, up to some
\* position: Regex::is_match is a search, so the match may stop anywhere
\* unless a "$" says otherwise
RECURSIVE MatchFrom(_, _, _, _)
MatchFrom(re, i, s, j) ==
    IF i > Len(re) THEN TRUE
    ELSE LET tok == re[i]
             n   == Len(s)
         IN  CASE tok.t = "^" -> j = 1 /\ MatchFrom(re, i + 1, s, j)
               [] tok.t = "$" -> j = n + 1 /\ MatchFrom(re, i + 1, s, j)
               [] tok.t = "char" ->
                     /\ j <= n
                     /\ IF tok.c = "." THEN DotMatches(s[j]) ELSE s[j] = tok.c
                     /\ MatchFrom(re, i + 1, s, j + 1)
               [] tok.t = "\\char" ->
                     j <= n /\ s[j] = tok.c /\ MatchFrom(re, i + 1, s, j + 1)
               [] tok.t = "[/]" ->
                     j <= n /\ s[j] = "/" /\ MatchFrom(re, i + 1, s, j + 1)
               [] tok.t = "([^/]*)" ->
                     \E k \in j..(n + 1) :
                         NoSlashRun(s, j, k - 1) /\ MatchFrom(re, i + 1, s, k)
               [] tok.t = "((?:.*)?)" ->
                     \E k \in j..(n + 1) :
                         DotRun(s, j, k - 1) /\ MatchFrom(re, i + 1, s, k)
               [] tok.t = "((?:[/].*)?)" ->
                     \/ MatchFrom(re, i + 1, s, j)
                     \/ /\ j <= n /\ s[j] = "/"
                        /\ \E k \in (j + 1)..(n + 1) :
                              DotRun(s, j + 1, k - 1) /\ MatchFrom(re, i + 1, s, k)
               [] tok.t = "((?:.*[/])?)" ->
                     \/ MatchFrom(re, i + 1, s, j)
                     \/ \E k \in (j + 1)..(n + 1) :
                           /\ DotRun(s, j, k - 2) /\ s[k - 1] = "/"
                           /\ MatchFrom(re, i + 1, s, k)
               [] tok.t = "((?:[/].*[/])|[/])" ->
                     /\ j <= n /\ s[j] = "/"
                     /\ \/ MatchFrom(re, i + 1, s, j + 1)
                        \/ \E k \in (j + 2)..(n + 1) :
                              /\ DotRun(s, j + 1, k - 2) /\ s[k - 1] = "/"
                              /\ MatchFrom(re, i + 1, s, k)
               [] OTHER -> FALSE

\* Regex::is_match: the regex matches somewhere in s
RegexIsMatch(re, s) == \E start \in 1..(Len(s) + 1) : MatchFrom(re, 1, s, start)

\* Rule::is_match
is_match(rule, s) == RegexIsMatch(rule.regex, s)

\* ------------------------------------------------------------------------
\* DatapathIndex (mod.rs)
\* ------------------------------------------------------------------------

\* EntryPush that puts s at the front of the bucket
EntryPushFront(map, pattern, s) ==
    IF pattern \in DOMAIN map
    THEN [map EXCEPT ![pattern] = <<s>> \o @]
    ELSE [k \in DOMAIN map \cup {pattern} |->
             IF k = pattern THEN <<s>> ELSE map[k]]

\* patterns.entry(pattern).or_insert(Vec::new()).push(s)
EntryPush(map, pattern, s) ==
    IF pattern \in DOMAIN map
    THEN [map EXCEPT ![pattern] = Append(@, s)]
    ELSE [k \in DOMAIN map \cup {pattern} |->
             IF k = pattern THEN <<s>> ELSE map[k]]

\* the empty HashMap / the empty trie
EmptyMap == [k \in {} |-> <<>>]

\* NewStep that counts a path only when every one of its tokens parses
NewStepSkipMalformed(st, s) ==
    LET tokens   == Split(s, "/")
        segments == StarValues(ParsedSegments(tokens))
        pattern  == JoinSegments(segments)
    IN  [patterns |-> EntryPush(st.patterns, pattern, s),
         len |-> IF Len(segments) = Len(tokens) THEN st.len + 1 ELSE st.len]

\* one iteration of the `for s in paths` loop of DatapathIndex::new, on the
\* loop's locals [patterns, len]
NewStep(st, s) ==
    LET segments == StarValues(ParsedSegments(Split(s, "/")))
        pattern  == JoinSegments(segments)
    IN  [patterns |-> EntryPush(st.patterns, pattern, s), len |-> st.len + 1]

\* AsyncNewStep that puts the new path at the front of its bucket
AsyncNewStepFront(st, s) ==
    LET segments == StarValues(ParsedSegments(Split(s, "/")))
        pattern  == JoinSegments(segments)
    IN  [patterns |->
            IF pattern \in DOMAIN st.patterns
            THEN [st.patterns EXCEPT ![pattern] = <<s>> \o @]
            ELSE EntryPush(st.patterns, pattern, s),
         len |-> st.len + 1]

\* one iteration of the `while let Some(s) = paths.recv().await` loop of
\* DatapathIndex::async_new
AsyncNewStep(st, s) ==
    LET segments == StarValues(ParsedSegments(Split(s, "/")))
        pattern  == JoinSegments(segments)
    IN  [patterns |-> EntryPush(st.patterns, pattern, s), len |-> st.len + 1]

\* DatapathIndex::new_empty, and the locals of new / async_new before the loop
new_empty == [patterns |-> EmptyMap, len |-> 0]

\* DatapathIndex::new on the whole sequence of paths
RECURSIVE NewFrom(_, _)
NewFrom(st, paths) ==
    IF Len(paths) = 0 THEN st ELSE NewFrom(NewStep(st, paths[1]), Tail(paths))

DatapathIndexNew(paths) == NewFrom(new_empty, paths)

\* Trie::predictive_search(key): the stored skeletons that start with key
predictive_search(index, key) == {k \in DOMAIN index.patterns : StartsWith(k, key)}

\* all the orders in which the elements of the set S can be visited
Orders(S) ==
    {o \in [1..Cardinality(S) -> S] : \A i, j \in 1..Cardinality(S) : o[i] = o[j] => i = j}

\* Filter that keeps every string of the bucket
FilterKeepAll(rule, strings) == strings

\* strings.iter().filter(|s| rule.is_match(s)) on one bucket
Filter(rule, strings) ==
    LET Keep(s) == is_match(rule, s) IN SelectSeq(strings, Keep)

\* flat_map over the visited skeletons, then the filter
RECURSIVE FlatFilter(_, _, _)
FlatFilter(index, rule, order) ==
    IF Len(order) = 0 THEN <<>>
    ELSE Filter(rule, index.patterns[order[1]])
             \o FlatFilter(index, rule, Tail(order))

\* DatapathIndex::query_rule, the skeletons visited in the given order
query_rule(index, rule, order) == FlatFilter(index, rule, order)

\* query that also returns None when nothing matches
queryNoneWhenEmpty(index, glob, order) ==
    LET regex == RuleNew(glob)
    IN  IF ~regex.some THEN None
        ELSE IF FlatFilter(index, regex.v, order) = <<>> THEN None
        ELSE Some(FlatFilter(index, regex.v, order))

\* DatapathIndex::query: None when the glob does not compile
query(index, glob, order) ==
    LET regex == RuleNew(glob)
    IN  IF ~regex.some THEN None
        ELSE Some(FlatFilter(index, regex.v, order))

\* query_rule_match that looks at the first path of each visited bucket only
query_rule_matchFirst(index, rule) ==
    \E k \in predictive_search(index, query_to_key(rule.pattern)) :
        is_match(rule, index.patterns[k][1])

\* DatapathIndex::query_rule_match
query_rule_match(index, rule) ==
    \E k \in predictive_search(index, query_to_key(rule.pattern)) :
        \E i \in 1..Len(index.patterns[k]) : is_match(rule, index.patterns[k][i])

\* query_match that asks for every stored path of the visited buckets to match
query_matchEvery(index, glob) ==
    LET regex == RuleNew(glob)
    IN  IF ~regex.some THEN None
        ELSE Some(\A k \in predictive_search(index, query_to_key(glob)) :
                     \A i \in 1..Len(index.patterns[k]) :
                         is_match(regex.v, index.patterns[k][i]))

\* DatapathIndex::query_match
query_match(index, glob) ==
    LET regex == RuleNew(glob)
    IN  IF ~regex.some THEN None
        ELSE Some(\E k \in predictive_search(index, query_to_key(glob)) :
                     \E i \in 1..Len(index.patterns[k]) :
                         is_match(regex.v, index.patterns[k][i]))

\* DatapathIndex::len
len(index) == index.len

\* DatapathIndex::is_empty
is_empty(index) == len(index) = 0

\* ------------------------------------------------------------------------
\* Wildcardable<T> (wildcardable.rs), for T = String and T = u8
\* ------------------------------------------------------------------------

\* Wildcardable::Star; the v field is unused
WildcardableStar(ty) ==
    [kind |-> "Star", ty |-> ty, v |-> IF ty = "String" THEN <<>> ELSE 0]

\* Wildcardable::Value(v)
WildcardableValue(ty, v) == [kind |-> "Value", ty |-> ty, v |-> v]

\* Result<Wildcardable<T>, ()>
WildErr(ty) == [ok |-> FALSE, v |-> WildcardableStar(ty)]
WildOk(w) == [ok |-> TRUE, v |-> w]

DigitChars == <<"0", "1", "2", "3", "4", "5", "6", "7", "8", "9">>

\* the "{x}" of Display for a u8: its decimal digits
RECURSIVE Decimal(_)
Decimal(n) ==
    IF n < 10 THEN <<DigitChars[n + 1]>>
    ELSE Decimal(n \div 10) \o <<DigitChars[(n % 10) + 1]>>

\* the "{x}" of Display for T
TDisplay(ty, v) == IF ty = "String" THEN v ELSE Decimal(v)

\* the digits of s read as a number, -1 when a character is not a digit or
\* the number does not fit a u8
RECURSIVE DigitsValue(_, _)
DigitsValue(s, acc) ==
    IF s = <<>> THEN acc
    ELSE IF \A d \in 1..10 : DigitChars[d] # s[1] THEN -1
    ELSE LET d    == CHOOSE x \in 1..10 : DigitChars[x] = s[1]
             next == acc * 10 + (d - 1)
         IN  IF next >= 2^8 THEN -1 ELSE DigitsValue(Tail(s), next)

\* value.parse() for T: a String parses to itself; a u8 is an optional '+'
\* and one or more decimal digits
TFromStr(ty, s) ==
    IF ty = "String" THEN [ok |-> TRUE, v |-> s]
    ELSE LET digits == IF s # <<>> /\ s[1] = "+" THEN Tail(s) ELSE s
             n      == IF digits = <<>> THEN -1 ELSE DigitsValue(digits, 0)
         IN  IF n < 0 THEN [ok |-> FALSE, v |-> 0] ELSE [ok |-> TRUE, v |-> n]

\* impl Display for Wildcardable<T>
WildcardableDisplay(w) ==
    IF w.kind = "Star" THEN <<"*">> ELSE TDisplay(w.ty, w.v)

\* WildcardableFromStr without the "*" arm: every text is parsed as a T
WildcardableFromStrNoStar(ty, s) ==
    LET r == TFromStr(ty, s)
    IN  IF ~r.ok THEN WildErr(ty) ELSE WildOk(WildcardableValue(ty, r.v))

\* impl FromStr for Wildcardable<T>
WildcardableFromStr(ty, s) ==
    IF s = <<"*">> THEN WildOk(WildcardableStar(ty))
    ELSE LET r == TFromStr(ty, s)
         IN  IF ~r.ok THEN WildErr(ty) ELSE WildOk(WildcardableValue(ty, r.v))

\* ------------------------------------------------------------------------
\* Inputs
\* ------------------------------------------------------------------------

\* the values of Wildcardable<String> that are formatted
WildcardableStrings ==
    {WildcardableStar("String")}
        \cup {WildcardableValue("String", v) : v \in Strings({"a", "*", "1"}, MaxWildLen)}

\* the values of Wildcardable<u8> that are formatted
WildcardableNumbers ==
    {WildcardableStar("u8")} \cup {WildcardableValue("u8", n) : n \in 0..MaxWildNum}

\* the patterns handed to Rule::new
Patterns == Strings({"a", "/", "*", "."}, MaxPatLen)

\* the candidates handed to Rule::is_match
Candidates == Strings({"a", "/", ".", "\n"}, MaxCandLen)

\* the path strings a source supplies to new / async_new
Paths == Strings({"a", "/", "="}, MaxPathLen)

\* the path strings a producer sends into the channel of async_new
SentPaths == Strings({"a", "/", "="}, MaxSentLen)

\* the globs handed to the queries of an index
Globs == Strings({"a", "/", "*", "="}, MaxPatLen)

\* literal segments: no '*', no '/', not empty
Literals == Strings({"a", "."}, MaxLitLen) \ {<<>>}

\* the path strings of an index that is queried twice
QueryPaths == Strings({"a", "/", "="}, MaxQueryPathLen)

\* the globs of the queries that are run twice
QueryGlobs == Strings({"a", "/", "*", "="}, MaxQueryGlobLen)

\* the path strings, newlines among them, of an index that is only built
BuildPaths == Strings({"a", "/", "=", "\n"}, MaxBuildPathLen)

\* the tokens of the globs built from tokens: literal constants, key=V
\* partitions with a '*'-free key, the bare "*" and the bare "**"
GlobTokens ==
    {<<"a">>, <<"k">>,
     <<"k", "=", "a">>, <<"k", "=">>, <<"k", "=", "*">>, <<"k", "=", "a", "*">>,
     <<"=", "*">>,
     <<"*">>, <<"*", "*">>}

\* the globs built from tokens
TokenGlobs == {Join(ts, "/") : ts \in Strings(GlobTokens, MaxGlobTokens)}

\* the tokens of the paths built from tokens, the empty token among them
PathTokens ==
    {<<>>, <<"a">>, <<"k">>, <<"k", "=", "a">>, <<"k", "=">>, <<"=", "a">>,
     <<"k", "=", "a", "a">>}

\* the paths built from tokens
TokenPaths == {Join(ts, "/") : ts \in Strings(PathTokens, MaxPathTokens)}

\* the tokens of the patterns with "**" tokens in a row
StarTokens == {<<"*", "*">>, <<"*">>, <<"a">>, <<"a", "*", "*">>, <<>>}

\* the patterns with "**" tokens in a row
StarPatterns == {Join(ts, "/") : ts \in Strings(StarTokens, MaxStarTokens)}

\* the texts parsed as a PathSegment
SegmentTexts == Strings({"a", "=", "/", "\n"}, MaxSegmentLen)

\* the candidates matched against the doublestar patterns
LongCandidates == Strings({"a", ".", "/", "\n"}, MaxLongCandLen)

\* ------------------------------------------------------------------------
\* State
\* ------------------------------------------------------------------------

VARIABLES
    pc,        \* where the caller is: "new" / "async_new" (in the builder's
               \* loop), "built", "cancelled", "queried", "requeried",
               \* "Rule::new", "rule", "invalid", "is_match",
               \* "Wildcardable", "text", "parsed",
               \* "PathSegment", "segment", "Err", "shown"
    supplied,  \* the path strings the builder's loop has taken from its source
    idx,       \* [patterns, len]: the locals of the builder, then the index
    call,      \* the last query: [op, glob, out]
    chan,      \* the items buffered in the mpsc channel of async_new
    closed,    \* every Sender of that channel has been dropped
    sent,      \* all the items ever sent into the channel, in order
    pattern,   \* the pattern given to Rule::new
    rule,      \* what Rule::new returned
    cand,      \* the candidate given to Rule::is_match
    matched,   \* what Rule::is_match returned
    wild,      \* a Wildcardable conversion: [w, text, parsed]
    pseg       \* a PathSegment conversion: [s, parsed, shown]

vars ==
    <<pc, supplied, idx, call, chan, closed, sent, pattern, rule, cand, matched,
      wild, pseg>>

NoCall == [op |-> "none", glob |-> <<>>, out |-> None]

indexVars == <<supplied, idx, call>>
chanVars == <<chan, closed, sent>>
ruleVars == <<pattern, rule, cand, matched>>
convVars == <<wild, pseg>>

NoIndex == supplied = <<>> /\ idx = new_empty /\ call = NoCall
NoChan == chan = <<>> /\ closed = FALSE /\ sent = <<>>
NoRule == pattern = <<>> /\ rule = None /\ cand = <<>> /\ matched = FALSE
NoConv == wild = <<>> /\ pseg = <<>>

\* ------------------------------------------------------------------------
\* Building an index with new and querying it: Spec
\* ------------------------------------------------------------------------

Init ==
    /\ pc = "new"
    /\ supplied = <<>>
    /\ idx = new_empty
    /\ call = NoCall
    /\ NoChan /\ NoRule /\ NoConv

\* the loop of new takes the next path from its source, a path of P, while
\* fewer than n paths have been taken
NewIngestFrom(P, n) ==
    /\ pc = "new"
    /\ Len(supplied) < n
    /\ \E s \in P :
          /\ idx' = NewStep(idx, s)
          /\ supplied' = Append(supplied, s)
    /\ UNCHANGED <<pc, call, chanVars, ruleVars, convVars>>

NewIngest == NewIngestFrom(Paths, MaxPaths)

\* the source is exhausted: the trie is built from the map and new returns
NewBuild ==
    /\ pc = "new"
    /\ pc' = "built"
    /\ UNCHANGED <<supplied, idx, call, chanVars, ruleVars, convVars>>

\* DatapathIndex::new_empty() is called instead of new
NewEmpty ==
    /\ pc = "new"
    /\ supplied = <<>>
    /\ idx' = new_empty
    /\ pc' = "built"
    /\ UNCHANGED <<supplied, call, chanVars, ruleVars, convVars>>

\* QueryOn that takes the visited buckets out of the index
QueryTakeOn(G, from, to) ==
    /\ pc = from
    /\ \E glob \in G :
          \E order \in Orders(predictive_search(idx, query_to_key(glob))) :
              /\ call' = [op |-> "query", glob |-> glob, out |-> query(idx, glob, order)]
              /\ idx' = [idx EXCEPT !.patterns =
                            [k \in DOMAIN idx.patterns |->
                                IF \E i \in 1..Len(order) : order[i] = k
                                THEN <<>> ELSE idx.patterns[k]]]
    /\ pc' = to
    /\ UNCHANGED <<supplied, chanVars, ruleVars, convVars>>

\* idx.query(glob) for a glob of G, by a caller at `from`
QueryOn(G, from, to) ==
    /\ pc = from
    /\ \E glob \in G :
          \E order \in Orders(predictive_search(idx, query_to_key(glob))) :
              call' = [op |-> "query", glob |-> glob, out |-> query(idx, glob, order)]
    /\ pc' = to
    /\ UNCHANGED <<supplied, idx, chanVars, ruleVars, convVars>>

Query == QueryOn(Globs, "built", "queried")

\* idx.query_rule(&Rule::new(glob).unwrap()); the iterator is stored as Some
QueryRuleOn(G, from, to) ==
    /\ pc = from
    /\ \E glob \in G :
          /\ RuleNew(glob).some
          /\ LET r == RuleNew(glob).v
             IN  \E order \in Orders(predictive_search(idx, query_to_key(r.pattern))) :
                     call' = [op |-> "query_rule", glob |-> glob,
                              out |-> Some(query_rule(idx, r, order))]
    /\ pc' = to
    /\ UNCHANGED <<supplied, idx, chanVars, ruleVars, convVars>>

QueryRule == QueryRuleOn(Globs, "built", "queried")

\* idx.query_match(glob)
QueryMatchOn(G, from, to) ==
    /\ pc = from
    /\ \E glob \in G :
          call' = [op |-> "query_match", glob |-> glob, out |-> query_match(idx, glob)]
    /\ pc' = to
    /\ UNCHANGED <<supplied, idx, chanVars, ruleVars, convVars>>

QueryMatch == QueryMatchOn(Globs, "built", "queried")

\* idx.query_rule_match(&Rule::new(glob).unwrap()); the bool is stored as Some
QueryRuleMatchOn(G, from, to) ==
    /\ pc = from
    /\ \E glob \in G :
          /\ RuleNew(glob).some
          /\ call' = [op |-> "query_rule_match", glob |-> glob,
                      out |-> Some(query_rule_match(idx, RuleNew(glob).v))]
    /\ pc' = to
    /\ UNCHANGED <<supplied, idx, chanVars, ruleVars, convVars>>

Next == NewIngest \/ NewBuild \/ Query \/ QueryRule \/ QueryMatch

Spec == Init /\ [][Next]_vars

\* ------------------------------------------------------------------------
\* Building an index, with new or new_empty, and querying it twice with
\* the same glob: SpecQueries
\* ------------------------------------------------------------------------

\* the second call: any of the four queries, on the glob of the first call
Requery ==
    \/ QueryOn({call.glob}, "queried", "requeried")
    \/ QueryRuleOn({call.glob}, "queried", "requeried")
    \/ QueryMatchOn({call.glob}, "queried", "requeried")
    \/ QueryRuleMatchOn({call.glob}, "queried", "requeried")

NextQueries ==
    \/ NewIngestFrom(QueryPaths, MaxQueryPaths)
    \/ NewBuild
    \/ NewEmpty
    \/ QueryOn(QueryGlobs, "built", "queried")
    \/ QueryRuleOn(QueryGlobs, "built", "queried")
    \/ QueryMatchOn(QueryGlobs, "built", "queried")
    \/ QueryRuleMatchOn(QueryGlobs, "built", "queried")
    \/ Requery

SpecQueries == Init /\ [][NextQueries]_vars

\* ------------------------------------------------------------------------
\* Building an index of paths made of tokens and querying it with a glob
\* made of tokens: SpecTokens
\* ------------------------------------------------------------------------

NextTokens ==
    \/ NewIngestFrom(TokenPaths, MaxTokenPaths)
    \/ NewBuild
    \/ QueryOn(TokenGlobs, "built", "queried")

SpecTokens == Init /\ [][NextTokens]_vars

\* ------------------------------------------------------------------------
\* Building an index with new from paths that may hold newlines: SpecBuild
\* ------------------------------------------------------------------------

NextBuild == NewIngestFrom(BuildPaths, MaxBuildPaths) \/ NewBuild

SpecBuild == Init /\ [][NextBuild]_vars

\* ------------------------------------------------------------------------
\* Building an index with async_new from a channel: SpecAsync
\* ------------------------------------------------------------------------

InitAsync ==
    /\ pc = "async_new"
    /\ supplied = <<>>
    /\ idx = new_empty
    /\ call = NoCall
    /\ NoChan /\ NoRule /\ NoConv

\* a producer sends one more path into the channel
Send ==
    /\ ~closed
    /\ pc # "cancelled"
    /\ Len(sent) < MaxSent
    /\ Len(chan) < ChannelCapacity
    /\ \E s \in SentPaths :
          /\ chan' = Append(chan, s)
          /\ sent' = Append(sent, s)
    /\ UNCHANGED <<pc, closed, indexVars, ruleVars, convVars>>

\* the last Sender is dropped
Close ==
    /\ ~closed
    /\ closed' = TRUE
    /\ UNCHANGED <<pc, chan, sent, indexVars, ruleVars, convVars>>

\* paths.recv().await returns Some(s): one iteration of the loop
AsyncIngest ==
    /\ pc = "async_new"
    /\ chan # <<>>
    /\ idx' = AsyncNewStep(idx, Head(chan))
    /\ supplied' = Append(supplied, Head(chan))
    /\ chan' = Tail(chan)
    /\ UNCHANGED <<pc, call, closed, sent, ruleVars, convVars>>

\* paths.recv().await returns None (closed and drained): the trie is built
\* and async_new returns
AsyncBuild ==
    /\ pc = "async_new"
    /\ chan = <<>>
    /\ closed
    /\ pc' = "built"
    /\ UNCHANGED <<supplied, idx, call, chanVars, ruleVars, convVars>>

\* what is left of the locals of async_new once its future is dropped
Dropped == [dropped |-> TRUE]

\* AsyncCancel that hands the locals of the loop to the caller as an index
AsyncCancelKeep ==
    /\ pc = "async_new"
    /\ pc' = "cancelled"
    /\ chan' = <<>>
    /\ UNCHANGED <<supplied, idx, call, closed, sent, ruleVars, convVars>>

\* the caller drops the future of async_new while it waits in
\* paths.recv().await: len, patterns and the Receiver, with what it still
\* buffers, are dropped and nothing is returned
AsyncCancel ==
    /\ pc = "async_new"
    /\ pc' = "cancelled"
    /\ idx' = Dropped
    /\ chan' = <<>>
    /\ UNCHANGED <<supplied, call, closed, sent, ruleVars, convVars>>

NextAsync == Send \/ Close \/ AsyncIngest \/ AsyncBuild \/ AsyncCancel

SpecAsync == InitAsync /\ [][NextAsync]_vars

\* ------------------------------------------------------------------------
\* Compiling a pattern and matching one candidate: SpecRule, SpecDoubleStar
\* ------------------------------------------------------------------------

InitRule ==
    /\ pc = "Rule::new"
    /\ pattern \in Patterns
    /\ rule = None /\ cand = <<>> /\ matched = FALSE
    /\ NoIndex /\ NoChan /\ NoConv

\* Rule::new(pattern)
RuleNewCall ==
    /\ pc = "Rule::new"
    /\ rule' = RuleNew(pattern)
    /\ pc' = IF rule'.some THEN "rule" ELSE "invalid"
    /\ UNCHANGED <<pattern, cand, matched, indexVars, chanVars, convVars>>

\* rule.is_match(c) for a candidate c of C
IsMatchCall(C) ==
    /\ pc = "rule"
    /\ \E c \in C :
          /\ cand' = c
          /\ matched' = is_match(rule.v, c)
    /\ pc' = "is_match"
    /\ UNCHANGED <<pattern, rule, indexVars, chanVars, convVars>>

NextRule == RuleNewCall \/ IsMatchCall(Candidates)

SpecRule == InitRule /\ [][NextRule]_vars

\* the patterns "A/**/B", "A/**", "**/B" and "**" for literal segments A, B
DoubleStarPatterns ==
    {a \o <<"/", "*", "*", "/">> \o b : a \in Literals, b \in Literals}
        \cup {a \o <<"/", "*", "*">> : a \in Literals}
        \cup {<<"*", "*", "/">> \o b : b \in Literals}
        \cup {<<"*", "*">>}

InitDoubleStar ==
    /\ pc = "Rule::new"
    /\ pattern \in DoubleStarPatterns
    /\ rule = None /\ cand = <<>> /\ matched = FALSE
    /\ NoIndex /\ NoChan /\ NoConv

NextDoubleStar == RuleNewCall \/ IsMatchCall(LongCandidates)

SpecDoubleStar == InitDoubleStar /\ [][NextDoubleStar]_vars

\* ------------------------------------------------------------------------
\* Formatting a Wildcardable and parsing the text back: SpecWild
\* ------------------------------------------------------------------------

InitWild ==
    /\ pc = "Wildcardable"
    /\ \/ \E w \in WildcardableStrings :
              wild = [w |-> w, text |-> <<>>, parsed |-> WildErr(w.ty)]
       \/ \E w \in WildcardableNumbers :
              wild = [w |-> w, text |-> <<>>, parsed |-> WildErr(w.ty)]
    /\ pseg = <<>>
    /\ NoIndex /\ NoChan /\ NoRule

\* wild.w.to_string()
WildcardableToString ==
    /\ pc = "Wildcardable"
    /\ wild' = [wild EXCEPT !.text = WildcardableDisplay(wild.w)]
    /\ pc' = "text"
    /\ UNCHANGED <<pseg, indexVars, chanVars, ruleVars>>

\* wild.text.parse::<Wildcardable<T>>()
WildcardableParse ==
    /\ pc = "text"
    /\ wild' = [wild EXCEPT !.parsed = WildcardableFromStr(wild.w.ty, wild.text)]
    /\ pc' = "parsed"
    /\ UNCHANGED <<pseg, indexVars, chanVars, ruleVars>>

NextWild == WildcardableToString \/ WildcardableParse

SpecWild == InitWild /\ [][NextWild]_vars

\* ------------------------------------------------------------------------
\* Compiling a pattern with "**" tokens in a row: SpecStars
\* ------------------------------------------------------------------------

InitStars ==
    /\ pc = "Rule::new"
    /\ pattern \in StarPatterns
    /\ rule = None /\ cand = <<>> /\ matched = FALSE
    /\ NoIndex /\ NoChan /\ NoConv

NextStars == RuleNewCall

SpecStars == InitStars /\ [][NextStars]_vars

\* ------------------------------------------------------------------------
\* Parsing a text as a PathSegment and formatting the segment: SpecSegment
\* ------------------------------------------------------------------------

InitSegment ==
    /\ pc = "PathSegment"
    /\ pseg \in {[s |-> s, parsed |-> None, shown |-> <<>>] : s \in SegmentTexts}
    /\ wild = <<>>
    /\ NoIndex /\ NoChan /\ NoRule

\* PathSegment::from_str(&pseg.s)
PathSegmentParse ==
    /\ pc = "PathSegment"
    /\ pseg' = [pseg EXCEPT !.parsed = PathSegmentFromStr(pseg.s)]
    /\ pc' = IF pseg'.parsed.some THEN "segment" ELSE "Err"
    /\ UNCHANGED <<wild, indexVars, chanVars, ruleVars>>

\* the parsed segment's to_string()
PathSegmentToString ==
    /\ pc = "segment"
    /\ pseg' = [pseg EXCEPT !.shown = PathSegmentDisplay(pseg.parsed.v)]
    /\ pc' = "shown"
    /\ UNCHANGED <<wild, indexVars, chanVars, ruleVars>>

NextSegment == PathSegmentParse \/ PathSegmentToString

SpecSegment == InitSegment /\ [][NextSegment]_vars

\* ------------------------------------------------------------------------
\* Helpers of the properties
\* ------------------------------------------------------------------------

\* how many times x occurs in seq
Count(seq, x) == Cardinality({i \in 1..Len(seq) : seq[i] = x})

\* the sum of the lengths of the buckets whose keys are in K
RECURSIVE SumLens(_, _)
SumLens(map, K) ==
    IF K = {} THEN 0
    ELSE LET k == CHOOSE x \in K : TRUE
         IN  Len(map[k]) + SumLens(map, K \ {k})

\* the pieces of s between slashes that are not empty
NonEmptySegments(s) ==
    LET NotEmpty(x) == x # <<>> IN SelectSeq(Split(s, "/"), NotEmpty)

\* s without leading and trailing '/', every run of '/' collapsed to one
Normalized(s) == Join(NonEmptySegments(s), "/")

\* p has three '*' in a row, that is, a maximal run of three or more
HasTripleStar(p) ==
    \E i \in 1..(Len(p) - 2) : p[i] = "*" /\ p[i + 1] = "*" /\ p[i + 2] = "*"

\* p has two '*' in a row
HasDoubleStar(p) == \E i \in 1..(Len(p) - 1) : p[i] = "*" /\ p[i + 1] = "*"

\* the positions where a maximal run of exactly two '*' starts
ExactDoubleStarRuns(p) ==
    {i \in 1..(Len(p) - 1) :
        /\ p[i] = "*" /\ p[i + 1] = "*"
        /\ (i = 1 \/ p[i - 1] # "*")
        /\ (i + 1 = Len(p) \/ p[i + 2] # "*")}

\* p with the "**" at position i replaced by "/**/"
SlashedAt(p, i) ==
    SubSeq(p, 1, i - 1) \o <<"/", "*", "*", "/">> \o SubSeq(p, i + 2, Len(p))

\* glob matching inside one segment, written without regular expressions:
\* '*' stands for any run of characters other than '/', every other
\* character for itself
RECURSIVE WildMatch(_, _)
WildMatch(seg, c) ==
    IF seg = <<>> THEN c = <<>>
    ELSE IF seg[1] = "*"
         THEN \E k \in 0..Len(c) :
                  /\ \A m \in 1..k : c[m] # "/"
                  /\ WildMatch(Tail(seg), SubSeq(c, k + 1, Len(c)))
    ELSE c # <<>> /\ c[1] = seg[1] /\ WildMatch(Tail(seg), Tail(c))

\* the reference semantics of a pattern without "**": c is n pieces joined
\* by '/', the i-th piece matching the i-th non-empty segment of p
SegmentwiseMatch(p, c) ==
    LET segs == NonEmptySegments(p)
    IN  IF Len(segs) = 0 THEN c = <<>>
        ELSE LET cs == Split(c, "/")
             IN  /\ Len(cs) = Len(segs)
                 /\ \A i \in 1..Len(segs) : WildMatch(segs[i], cs[i])

\* the reference semantics of the patterns of DoubleStarPatterns
DoubleStarMatch(p, c) ==
    \/ p = <<"*", "*">>
    \/ \E a \in Literals :
          /\ p = a \o <<"/", "*", "*">>
          /\ (c = a \/ StartsWith(c, a \o <<"/">>))
    \/ \E b \in Literals :
          /\ p = <<"*", "*", "/">> \o b
          /\ (c = b \/ EndsWith(c, <<"/">> \o b))
    \/ \E a \in Literals, b \in Literals :
          /\ p = a \o <<"/", "*", "*", "/">> \o b
          /\ \/ c = a \o <<"/">> \o b
             \/ /\ Len(c) >= Len(a) + Len(b) + 2
                /\ StartsWith(c, a \o <<"/">>)
                /\ EndsWith(c, <<"/">> \o b)

\* the regex holds the token of the unreachable!() branch of to_regex_part
Panics(r) == \E i \in 1..Len(r.regex) : r.regex[i].t = "unreachable!"

\* ------------------------------------------------------------------------
\* Properties
\* ------------------------------------------------------------------------

\* C1: every supplied path that the compiled regex of a valid glob matches
\* is among the results of query(glob), and the lookup key of the glob is a
\* prefix of the skeleton the path is stored under.
C1_QueryComplete ==
    (pc = "queried" /\ call.op = "query" /\ call.out.some) =>
        \A i \in 1..Len(supplied) :
            is_match(RuleNew(call.glob).v, supplied[i]) =>
                /\ Count(call.out.v, supplied[i]) >= 1
                /\ StartsWith(Skeleton(supplied[i]), query_to_key(call.glob))

\* C2: every string query / query_rule yields was supplied, is matched by
\* the glob's regex, and is yielded at most as often as it was supplied.
C2_QuerySound ==
    (pc = "queried" /\ call.op \in {"query", "query_rule"} /\ call.out.some) =>
        \A j \in 1..Len(call.out.v) :
            LET p == call.out.v[j]
            IN  /\ Count(supplied, p) >= 1
                /\ is_match(RuleNew(call.glob).v, p)
                /\ Count(call.out.v, p) <= Count(supplied, p)

C2_Witness ==
    /\ pc = "queried" /\ call.op = "query"
    /\ call.glob = <<"a", "=", "a">>
    /\ supplied = <<<<"a", "=", "a">>, <<"a", "=">>>>
    /\ call.out.some /\ call.out.v = <<<<"a", "=", "a">>>>

\* C3: query and query_match return None exactly when Rule::new does; for a
\* valid glob that matches no stored path they return Some(empty) and
\* Some(false).
C3_NoneIffInvalid ==
    (pc = "queried" /\ call.op \in {"query", "query_match"}) =>
        LET r == RuleNew(call.glob)
        IN  /\ call.out.some = r.some
            /\ (r.some /\ \A i \in 1..Len(supplied) : ~is_match(r.v, supplied[i])) =>
                   IF call.op = "query" THEN call.out.v = <<>>
                   ELSE call.out.v = FALSE

C3_Witness ==
    /\ pc = "queried" /\ call.op = "query"
    /\ supplied = <<<<"a">>>>
    /\ call.glob = <<"a", "/", "a">>
    /\ call.out.some /\ call.out.v = <<>>

\* C4: at every step of the loop of new and afterwards, len is the number of
\* paths supplied and the sum of the bucket lengths, and is_empty holds
\* exactly when nothing was supplied.
C4_CountInvariant ==
    (pc \in {"new", "built", "queried"}) =>
        /\ len(idx) = Len(supplied)
        /\ len(idx) = SumLens(idx.patterns, DOMAIN idx.patterns)
        /\ is_empty(idx) = (Len(supplied) = 0)

C4_Witness ==
    /\ pc = "new"
    /\ supplied = <<<<"a", "/", "/">>, <<"a", "/", "/">>>>
    /\ len(idx) = 2

\* C5: Rule::new returns None exactly when the pattern has a run of three or
\* more '*'; otherwise it returns a rule without reaching unreachable!().
C5_NoneIffTripleStar ==
    (pc \in {"rule", "invalid", "is_match"}) =>
        /\ rule.some = ~HasTripleStar(pattern)
        /\ rule.some => ~Panics(rule.v)

C5_Witness ==
    /\ pc = "invalid"
    /\ pattern = <<"a", "*", "*", "*">>
    /\ ~rule.some

\* C6: a pattern without "**" matches a candidate exactly when the candidate
\* is as many slash-separated pieces as the pattern has non-empty segments
\* and each piece matches its segment, '*' standing for a run without '/'
\* and every other character for itself.
C6_SegmentwiseSemantics ==
    (pc = "is_match" /\ ~HasDoubleStar(pattern)) =>
        matched = SegmentwiseMatch(pattern, cand)

C6_Witness ==
    /\ pc = "is_match"
    /\ pattern = <<"a", "*", "/", ".">>
    /\ cand = <<"a", "\n", "/", ".">>
    /\ matched

\* C7: on candidates without newline, "A/**/B" matches A/B and A/x/B,
\* "A/**" matches A and what starts with A/, "**/B" matches B and what ends
\* with /B, "**" matches everything, and nothing else.
C7_DoubleStarSemantics ==
    (pc = "is_match" /\ ~Contains(cand, "\n")) =>
        matched = DoubleStarMatch(pattern, cand)

C7_Witness ==
    /\ pc = "is_match"
    /\ pattern = <<"a", "/", "*", "*", "/", ".">>
    /\ cand = <<"a", "/", "/", ".">>
    /\ matched

\* C8: a glob and its slash-normalized form compile or fail together,
\* accept the same candidates, and query returns the same results for both.
C8_SlashNormalization ==
    (pc = "queried" /\ call.op = "query") =>
        LET g  == call.glob
            r  == RuleNew(g)
            rn == RuleNew(Normalized(g))
            on == CHOOSE o \in Orders(predictive_search(idx, query_to_key(Normalized(g)))) : TRUE
            qn == query(idx, Normalized(g), on)
        IN  /\ r.some = rn.some
            /\ call.out.some = qn.some
            /\ r.some =>
                  \A i \in 1..Len(supplied) :
                      /\ is_match(r.v, supplied[i]) = is_match(rn.v, supplied[i])
                      /\ Count(call.out.v, supplied[i]) = Count(qn.v, supplied[i])

\* the part of C8 about Rule alone, which holds (under SpecRule): a pattern
\* and its slash-normalized form compile or fail together and accept the
\* same candidates.
RuleSlashNormalization ==
    /\ (pc \in {"rule", "invalid"}) => rule.some = RuleNew(Normalized(pattern)).some
    /\ (pc = "is_match") => matched = is_match(RuleNew(Normalized(pattern)).v, cand)

\* C9: replacing a maximal run of exactly two '*' by "/**/" gives a pattern
\* that compiles or fails as the original does and accepts the same
\* candidates.
C9_DoubleStarNeedsNoSlash ==
    \A i \in ExactDoubleStarRuns(pattern) :
        /\ (pc \in {"rule", "invalid"}) =>
               rule.some = RuleNew(SlashedAt(pattern, i)).some
        /\ (pc = "is_match") =>
               matched = is_match(RuleNew(SlashedAt(pattern, i)).v, cand)

C9_Witness ==
    /\ pc = "is_match"
    /\ pattern = <<"a", "*", "*", "a">>
    /\ cand = <<"a", "/", "a">>
    /\ matched

\* C10: when async_new returns, its index is the one new builds from the
\* items sent, in the order sent: same len, same skeletons, same buckets.
C10_AsyncSameAsNew ==
    (pc = "built") =>
        LET want == DatapathIndexNew(sent)
        IN  /\ len(idx) = len(want)
            /\ DOMAIN idx.patterns = DOMAIN want.patterns
            /\ \A k \in DOMAIN idx.patterns : idx.patterns[k] = want.patterns[k]

C10_Witness ==
    /\ pc = "built"
    /\ Len(sent) = 2
    /\ sent[1] # sent[2]
    /\ Skeleton(sent[1]) = Skeleton(sent[2])
    /\ len(idx) = 2

\* C11: an index built by new_empty() or by new() from an empty source has
\* len 0 and is_empty; on it query of a valid glob returns Some(empty) and
\* query_match of a valid glob returns Some(false).
C11_EmptyIndex ==
    (pc \in {"built", "queried", "requeried"} /\ supplied = <<>>) =>
        /\ len(idx) = 0
        /\ is_empty(idx)
        /\ (call.op = "query" /\ RuleNew(call.glob).some) =>
               call.out.some /\ call.out.v = <<>>
        /\ (call.op = "query_match" /\ RuleNew(call.glob).some) =>
               call.out.some /\ call.out.v = FALSE

C11_Witness ==
    /\ pc = "requeried" /\ supplied = <<>>
    /\ call.op = "query_match"
    /\ call.glob = <<"*", "*">>
    /\ call.out.some /\ call.out.v = FALSE

\* the strings of seq stored under the skeleton k, in the order of seq
OfBucket(seq, k) ==
    LET In(x) == Skeleton(x) = k IN SelectSeq(seq, In)

\* C12: the four queries agree.  query_match(g) is Some(b) exactly when
\* query(g) is Some(seq), with b = (seq is not empty); for a rule r =
\* Rule::new(g), query_rule(r) yields the sequence of query(g) and
\* query_rule_match(r) is the b of query_match(g).
C12_QueriesAgree ==
    (pc \in {"queried", "requeried"}) =>
        LET g      == call.glob
            r      == RuleNew(g)
            orders == Orders(predictive_search(idx, query_to_key(g)))
        IN  /\ (call.op = "query_match") =>
                  \A o \in orders :
                      /\ call.out.some = query(idx, g, o).some
                      /\ call.out.some => call.out.v = (query(idx, g, o).v # <<>>)
            /\ (call.op = "query") =>
                  /\ call.out.some = query_match(idx, g).some
                  /\ call.out.some => query_match(idx, g).v = (call.out.v # <<>>)
            /\ (call.op = "query_rule") =>
                  /\ r.some
                  /\ \E o \in orders : call.out = query(idx, g, o)
                  /\ \A o \in orders : query_rule(idx, r.v, o) = query(idx, g, o).v
            /\ (call.op = "query_rule_match") =>
                  /\ r.some
                  /\ call.out.v = query_match(idx, g).v
                  /\ \A o \in orders : call.out.v = (query_rule(idx, r.v, o) # <<>>)

C12_Witness ==
    /\ pc = "queried" /\ call.op = "query_rule_match"
    /\ supplied = <<<<"a", "/">>, <<"a">>>>
    /\ call.glob = <<"a">>
    /\ call.out.v = TRUE

\* C13: no query changes len() or a bucket, and a second query(g) yields
\* what the first did: the same strings as often, and within each skeleton's
\* bucket in the same order.
C13_QueriesReadOnly ==
    [][/\ (pc \in {"built", "queried"}) =>
              /\ supplied' = supplied
              /\ len(idx') = len(idx)
              /\ DOMAIN idx'.patterns = DOMAIN idx.patterns
              /\ \A k \in DOMAIN idx.patterns : idx'.patterns[k] = idx.patterns[k]
       /\ (pc = "queried" /\ call.op = "query" /\ call'.op = "query") =>
              /\ call'.glob = call.glob
              /\ call'.out.some = call.out.some
              /\ call.out.some =>
                    /\ Len(call'.out.v) = Len(call.out.v)
                    /\ \A i \in 1..Len(supplied) :
                           Count(call'.out.v, supplied[i]) = Count(call.out.v, supplied[i])
                    /\ \A k \in DOMAIN idx.patterns :
                           OfBucket(call'.out.v, k) = OfBucket(call.out.v, k)
      ]_vars

C13_Witness ==
    /\ pc = "requeried" /\ call.op = "query"
    /\ call.glob = <<"*", "*">>
    /\ supplied = <<<<"a">>, <<"=">>>>
    /\ call.out.some /\ call.out.v = <<<<"=">>, <<"a">>>>

\* C14: the bucket of a skeleton holds the supplied paths of that skeleton
\* in the order they were supplied, duplicates included, and query /
\* query_rule yield the matching paths of each visited bucket in that order.
C14_BucketOrder ==
    /\ (pc \in {"new", "built", "queried", "requeried"}) =>
           \A k \in DOMAIN idx.patterns : idx.patterns[k] = OfBucket(supplied, k)
    /\ (pc \in {"queried", "requeried"}
            /\ call.op \in {"query", "query_rule"} /\ call.out.some) =>
           LET Matches(x) == is_match(RuleNew(call.glob).v, x)
               visited    == predictive_search(idx, query_to_key(call.glob))
           IN  \A k \in DOMAIN idx.patterns :
                   OfBucket(call.out.v, k) =
                       IF k \in visited
                       THEN SelectSeq(OfBucket(supplied, k), Matches)
                       ELSE <<>>

C14_Witness ==
    /\ pc = "queried" /\ call.op = "query"
    /\ call.glob = <<"*", "*">>
    /\ supplied = <<<<"a", "/">>, <<"a">>>>
    /\ idx.patterns[<<"a">>] = <<<<"a", "/">>, <<"a">>>>
    /\ call.out.some /\ call.out.v = <<<<"a", "/">>, <<"a">>>>

\* C15: parsing the text a Wildcardable formats as yields it again; Star
\* formats as "*", "*" parses to Star, Value(v) formats as the text of v.
C15_WildcardableRoundTrip ==
    /\ (pc \in {"text", "parsed"}) =>
           wild.text = IF wild.w.kind = "Star" THEN <<"*">>
                       ELSE TDisplay(wild.w.ty, wild.w.v)
    /\ (pc = "parsed") => wild.parsed.ok /\ wild.parsed.v = wild.w

\* C15, amended: the round trip holds for Star and for every Value(v) whose
\* text is not "*"; a Value(v) whose text is "*" parses back to Star.
C15_RoundTripUnlessStarText ==
    /\ (pc \in {"text", "parsed"}) =>
           wild.text = IF wild.w.kind = "Star" THEN <<"*">>
                       ELSE TDisplay(wild.w.ty, wild.w.v)
    /\ (pc = "parsed") =>
           /\ wild.parsed.ok
           /\ IF wild.w.kind = "Value" /\ TDisplay(wild.w.ty, wild.w.v) = <<"*">>
              THEN wild.parsed.v = WildcardableStar(wild.w.ty)
              ELSE wild.parsed.v = wild.w

C15_Witness ==
    /\ pc = "parsed"
    /\ wild.w = WildcardableValue("String", <<"*">>)
    /\ wild.text = <<"*">>
    /\ wild.parsed = WildOk(WildcardableStar("String"))

\* C16: for a glob whose tokens are literal constants, key=V partitions
\* with a '*'-free key, "*" and "**", the glob compiles, its lookup key is a
\* prefix of the skeleton of every stored path its regex matches, and query
\* returns each such path as often as it was stored.
C16_MiddleWildcardPrunes ==
    (pc = "queried" /\ call.op = "query") =>
        /\ call.out.some
        /\ \A i \in 1..Len(supplied) :
               is_match(RuleNew(call.glob).v, supplied[i]) =>
                   /\ StartsWith(Skeleton(supplied[i]), query_to_key(call.glob))
                   /\ Count(call.out.v, supplied[i]) = Count(supplied, supplied[i])

C16_Witness ==
    /\ pc = "queried" /\ call.op = "query"
    /\ call.glob = <<"a", "/", "k", "=", "*", "/", "a">>
    /\ query_to_key(call.glob) = <<"a", "/", "k", "=", "*", "/", "a">>
    /\ supplied = <<<<"a", "/", "k", "=", "a", "a", "/", "a">>>>
    /\ call.out.some /\ call.out.v = supplied

\* a token that is not empty and holds no newline
ValidToken(t) == t # <<>> /\ \A i \in 1..Len(t) : t[i] # "\n"

\* a token with everything after its first '=' replaced by "*"
StarredToken(t) ==
    IF \E i \in 1..Len(t) : t[i] = "="
    THEN LET first == CHOOSE i \in 1..Len(t) :
                          t[i] = "=" /\ \A j \in 1..(i - 1) : t[j] # "="
         IN  SubSeq(t, 1, first) \o <<"*">>
    ELSE t

\* the skeleton of a path as the claim describes it
ClaimedSkeleton(s) ==
    LET valid == SelectSeq(Split(s, "/"), ValidToken)
    IN  Join([i \in 1..Len(valid) |-> StarredToken(valid[i])], "/")

\* C17: at every step of new and afterwards the bucket keys are the distinct
\* skeletons of the supplied paths, each path is stored verbatim in the
\* bucket of its skeleton and in no other, and a path with tokens that fail
\* to parse is stored and counted as well.
C17_BucketPartition ==
    (pc \in {"new", "built"}) =>
        /\ DOMAIN idx.patterns = {ClaimedSkeleton(supplied[i]) : i \in 1..Len(supplied)}
        /\ \A k \in DOMAIN idx.patterns :
               LET In(x) == ClaimedSkeleton(x) = k
               IN  idx.patterns[k] = SelectSeq(supplied, In)
        /\ \A i \in 1..Len(supplied) : \A k \in DOMAIN idx.patterns :
               (Count(idx.patterns[k], supplied[i]) > 0)
                   = (k = ClaimedSkeleton(supplied[i]))
        /\ len(idx) = Len(supplied)

C17_Witness ==
    /\ pc = "built"
    /\ supplied = <<<<"\n", "/", "a">>, <<"=", "\n", "/">>>>
    /\ DOMAIN idx.patterns = {<<"a">>, <<>>}
    /\ idx.patterns[<<"a">>] = <<<<"\n", "/", "a">>>>
    /\ idx.patterns[<<>>] = <<<<"=", "\n", "/">>>>
    /\ len(idx) = 2

\* C18: cancelling the wait of async_new for the next item yields an index
\* that holds exactly the items received before the cancellation, its len
\* the sum of its bucket lengths.
C18_CancelYieldsPartial ==
    (pc = "cancelled") =>
        /\ idx # Dropped
        /\ len(idx) = Len(supplied)
        /\ len(idx) = SumLens(idx.patterns, DOMAIN idx.patterns)
        /\ \A k \in DOMAIN idx.patterns : idx.patterns[k] = OfBucket(supplied, k)

\* C18, amended: cancelling the wait yields no index, the locals are
\* dropped; while the loop runs its locals hold exactly the items received,
\* len being the sum of the bucket lengths; an index is returned only when
\* the channel is closed and drained, and holds exactly the items sent
\* before the close.
C18_CancelYieldsNothing ==
    /\ (pc = "cancelled") => idx = Dropped
    /\ (pc \in {"async_new", "built"}) =>
           /\ len(idx) = Len(supplied)
           /\ len(idx) = SumLens(idx.patterns, DOMAIN idx.patterns)
           /\ DOMAIN idx.patterns = {Skeleton(supplied[i]) : i \in 1..Len(supplied)}
           /\ \A k \in DOMAIN idx.patterns : idx.patterns[k] = OfBucket(supplied, k)
    /\ (pc = "built") => closed /\ chan = <<>> /\ supplied = sent

C18_Witness ==
    /\ pc = "cancelled"
    /\ ~closed
    /\ Len(sent) = 2
    /\ Len(supplied) = 1
    /\ idx = Dropped

\* the tokens with every "**" that directly follows a "**" left out
RECURSIVE CollapseStars(_)
CollapseStars(tokens) ==
    IF Len(tokens) <= 1 THEN tokens
    ELSE IF tokens[1] = <<"*", "*">> /\ tokens[2] = <<"*", "*">>
         THEN CollapseStars(Tail(tokens))
    ELSE <<tokens[1]>> \o CollapseStars(Tail(tokens))

\* the pattern with each row of slash-separated "**" tokens collapsed to one
Collapsed(p) == Join(CollapseStars(Split(p, "/")), "/")

\* two DoubleStar segments are next to each other in the list
AdjacentDoubleStars(segments) ==
    \E i \in 1..(Len(segments) - 1) :
        segments[i].kind = "DoubleStar" /\ segments[i + 1].kind = "DoubleStar"

\* C19: the segment list the compiler builds never has two DoubleStar
\* segments next to each other, the unreachable!() branch of to_regex_part
\* is not executed, and a pattern compiles to the regex of the pattern with
\* its rows of "**" tokens collapsed ("**/**/**/a" to that of "**/a").
C19_NoAdjacentDoubleStar ==
    LET rebuilt_segments == RebuiltSegments(Segments(pattern), FALSE)
    IN  /\ rebuilt_segments.some => ~AdjacentDoubleStars(rebuilt_segments.v)
        /\ (pc = "rule") =>
               /\ ~Panics(rule.v)
               /\ RuleNew(Collapsed(pattern)).some
               /\ rule.v.regex = RuleNew(Collapsed(pattern)).v.regex

C19_Witness ==
    /\ pc = "rule"
    /\ pattern = <<"*", "*", "/", "*", "*", "/", "*", "*", "/", "a">>
    /\ Collapsed(pattern) = <<"*", "*", "/", "a">>
    /\ rule.v.regex = <<Tok("^"), Tok("((?:.*[/])?)"), [t |-> "char", c |-> "a"], Tok("$")>>

\* the position of the first '=' of t, 0 when t has none
FirstEquals(t) ==
    IF \E i \in 1..Len(t) : t[i] = "="
    THEN CHOOSE i \in 1..Len(t) : t[i] = "=" /\ \A j \in 1..(i - 1) : t[j] # "="
    ELSE 0

\* C20: a text that is empty or holds a newline fails to parse; any other
\* text with a '=' parses to Value{key, value}, key the text before the
\* first '=' and value all of the text after it; any other text without '='
\* parses to Constant(text); the parsed segment formats as the text.
C20_PathSegmentRoundTrip ==
    LET s     == pseg.s
        first == FirstEquals(s)
    IN  /\ (pc \in {"segment", "Err", "shown"}) =>
               pseg.parsed.some = (s # <<>> /\ \A i \in 1..Len(s) : s[i] # "\n")
        /\ (pc \in {"segment", "shown"}) =>
               /\ pseg.parsed.v.kind = IF first > 0 THEN "Value" ELSE "Constant"
               /\ (first > 0) =>
                      /\ pseg.parsed.v.key = SubSeq(s, 1, first - 1)
                      /\ pseg.parsed.v.value = SubSeq(s, first + 1, Len(s))
               /\ (first = 0) => pseg.parsed.v.key = s
        /\ (pc = "shown") => pseg.shown = s

C20_Witness ==
    /\ pc = "shown"
    /\ pseg.s = <<"a", "=", "=", "a">>
    /\ pseg.parsed.v = Value(<<"a">>, <<"=", "a">>)
    /\ pseg.shown = <<"a", "=", "=", "a">>

====
